---- MODULE Spec2Model ----
(***************************************************************************)
(* Cache abstraction (in-process MemoryCache and networked RedisCache),    *)
(* the fixed-window rate limiter built on Increment, and the Lock/Unlock   *)
(* primitive of go-clean-architecture.                                     *)
(*                                                                         *)
(* Time is a discrete clock `now` (one tick = one unit of time.Duration).  *)
(* time.Time{} (IsZero) is ZeroTime; the clock starts after it.            *)
(* Byte payloads are sequences of one-character strings.                   *)
(***************************************************************************)
EXTENDS Integers, Sequences, FiniteSets, TLC

-----------------------------------------------------------------------------
(* Bounds of the model *)

NumProcs == 3        \* concurrent callers of the store
MaxTime == 3         \* last instant of the clock for direct store calls
MaxReqTime == 4      \* last instant of the clock for HTTP requests
NumReqs == 3         \* HTTP requests of one identity
MaxLockOps == 4      \* Lock/Unlock calls in one behaviour
WindowSize == 2      \* cfg.WindowSize of the policy under test
MaxRequests == 1     \* cfg.MaxRequests of the policy under test
NumClients == 3      \* clients competing for one lock
MaxLockTTL == 1      \* longest ttl passed to Lock
MaxCloses == 2       \* Close calls in one behaviour
DefaultTTL == 2      \* config.DefaultTTL, in ticks of the clock

(* Program values *)

ZeroTime == 0        \* time.Time{} : "no expiration"

Procs == 1 .. NumProcs
TTLs == {-1, 0, 1}       \* ttl < 0, ttl == 0 (default) and ttl > 0
Deltas == {1}
CounterKey == "counter"

-----------------------------------------------------------------------------
(* Decimal conversion of counters: strconv.FormatInt / strconv.ParseInt *)

Digits == <<"0", "1", "2", "3", "4", "5", "6", "7", "8", "9">>

DigitSet == {Digits[i] : i \in 1 .. 10}

DigitVal(c) == CHOOSE i \in 0 .. 9 : Digits[i + 1] = c

RECURSIVE FormatNat(_)
FormatNat(n) ==
    IF n < 10 THEN <<Digits[n + 1]>>
    ELSE FormatNat(n \div 10) \o <<Digits[(n % 10) + 1]>>

formatInt64(value) ==
    IF value < 0 THEN <<"-">> \o FormatNat(0 - value) ELSE FormatNat(value)

RECURSIVE ParseNat(_)
ParseNat(s) ==
    IF Len(s) = 0 THEN 0
    ELSE 10 * ParseNat(SubSeq(s, 1, Len(s) - 1)) + DigitVal(s[Len(s)])

\* the digits of s after an optional sign
Unsigned(s) == IF Len(s) > 0 /\ s[1] \in {"-", "+"} THEN Tail(s) ELSE s

\* strconv.ParseInt reports an error (err != nil)
parseInt64Err(data) ==
    \/ Len(Unsigned(data)) = 0
    \/ \E i \in 1 .. Len(Unsigned(data)) : Unsigned(data)[i] \notin DigitSet

parseInt64(data) ==
    IF Len(data) > 0 /\ data[1] = "-" THEN 0 - ParseNat(Unsigned(data))
    ELSE ParseNat(Unsigned(data))

LockedValue == <<"l", "o", "c", "k", "e", "d">>

LockKey(resource) == "lock:" \o resource

-----------------------------------------------------------------------------
(* State *)

VARIABLES
    backend,    \* provider selected at construction: "memory" or "redis"
    now,        \* the wall clock
    data,       \* MemoryCache.data: key -> memoryItem
    rdb,        \* keyspace of the Redis server: key -> [value, expireAt]
    call,       \* the Increment/Decrement call of each direct caller
    policy,     \* the rate-limit policy (route) under test
    req,        \* the HTTP requests of one identity under that policy
    holds,      \* per client and resource: the lock it acquired, if any
    race,       \* per resource: the Lock calls since the lock was last free
    lockOps,    \* number of Lock/Unlock calls made so far
    ops,        \* the store operation under observation: running or last run
    members     \* the members SAdd put into the set and SRem did not take out

vars == <<backend, now, data, rdb, call, policy, req, holds, race, lockOps, ops, members>>

limiterVars == <<policy, req>>
lockVars == <<holds, race, lockOps>>
storeVars == <<ops, members>>

Backends == {"memory", "redis"}

-----------------------------------------------------------------------------
(* MemoryCache: every operation below runs under m.mu, so it is one step.  *)
(* memoryItem.createdAt is written but never read and is left out.         *)

memoryItem(value, expiresAt) == [value |-> value, expiresAt |-> expiresAt]

\* MemoryCache.isExpired at clock t
isExpired(item, t) ==
    IF item.expiresAt = ZeroTime THEN FALSE ELSE t > item.expiresAt

\* the current counter value Increment starts from
IncrementCurrentStale(d, key, t) == 0

IncrementCurrent(d, key, t) ==
    IF key \in DOMAIN d /\ ~isExpired(d[key], t)
       /\ Len(d[key].value) > 0 /\ ~parseInt64Err(d[key].value)
    THEN parseInt64(d[key].value)
    ELSE 0

\* the expiry instant of an entry written at t with the caller's ttl
ExpiresAt(ttl, t) ==
    LET eff == IF ttl = 0 THEN DefaultTTL ELSE ttl
    IN  IF eff > 0 THEN t + eff ELSE ZeroTime

\* MemoryCache.Increment: [ret, data]
MemIncrement(d, key, delta, ttl, t) ==
    LET newValue == IncrementCurrent(d, key, t) + delta
        item == memoryItem(formatInt64(newValue), ExpiresAt(ttl, t))
    IN  [ret |-> newValue,
         data |-> [k \in DOMAIN d \cup {key} |-> IF k = key THEN item ELSE d[k]]]

\* MemoryCache.Decrement
MemDecrement(d, key, delta, ttl, t) == MemIncrement(d, key, 0 - delta, ttl, t)

\* the key is readable in the in-process store
MemLive(d, key, t) == key \in DOMAIN d /\ ~isExpired(d[key], t)

-----------------------------------------------------------------------------
(* Redis server commands used by RedisCache.  A key whose expire time has  *)
(* passed is gone for every command.  expireAt = ZeroTime: no expire.      *)

RedisLive(rd, key, t) ==
    key \in DOMAIN rd /\ (rd[key].expireAt = ZeroTime \/ ~(t > rd[key].expireAt))

\* INCRBY key delta: [ret, err, db]; a new key carries no expire
RedisIncrBy(rd, key, delta, t) ==
    IF RedisLive(rd, key, t) /\ parseInt64Err(rd[key].value)
    THEN [ret |-> 0, err |-> TRUE, db |-> rd]
    ELSE LET cur == IF RedisLive(rd, key, t) THEN parseInt64(rd[key].value) ELSE 0
             exp == IF RedisLive(rd, key, t) THEN rd[key].expireAt ELSE ZeroTime
             item == [value |-> formatInt64(cur + delta), expireAt |-> exp]
         IN  [ret |-> cur + delta, err |-> FALSE,
              db |-> [k \in DOMAIN rd \cup {key} |-> IF k = key THEN item ELSE rd[k]]]

\* EXPIRE key ttl
RedisExpire(rd, key, ttl, t) ==
    IF RedisLive(rd, key, t)
    THEN [rd EXCEPT ![key].expireAt = t + ttl]
    ELSE rd

\* the expire RedisCache.Increment queues after IncrBy; 0: none queued
IncrementExpireArg(ttl) ==
    IF ttl > 0 THEN ttl
    ELSE IF ttl = 0 /\ DefaultTTL > 0 THEN DefaultTTL
    ELSE 0

-----------------------------------------------------------------------------
(* Counter calls issued directly on the store by concurrent callers.       *)
(* call[p].pc: "idle" -> ("piped" ->) "done".  A call updates the counter  *)
(* in the step that starts it and callers start in the order of their      *)
(* numbers, so the updates take effect in that order.  fresh tells whether *)
(* the call found no live counter, quiet whether no other call was in      *)
(* flight at that moment, t is the instant of its update.                  *)

IdleCall ==
    [pc |-> "idle", op |-> "none", delta |-> 0, ttl |-> 0, ret |-> 0,
     err |-> FALSE, t |-> 0, fresh |-> FALSE, quiet |-> FALSE]

InitCommon ==
    /\ backend \in Backends
    /\ now = 1
    /\ data = <<>>
    /\ rdb = <<>>

InitCounter ==
    /\ InitCommon
    /\ call = [p \in Procs |-> IdleCall]
    /\ policy = "none"
    /\ req = <<>>
    /\ holds = <<>>
    /\ race = <<>>
    /\ lockOps = 0
    /\ ops = <<>>
    /\ members = {}

\* callers are interchangeable: they start in the order of their numbers
MayStart(p) ==
    /\ call[p].pc = "idle"
    /\ \A q \in Procs : q < p => call[q].pc # "idle"

\* the clock advances
Advance(last) ==
    /\ now < last
    /\ now' = now + 1
    /\ UNCHANGED <<backend, data, rdb, call, limiterVars, lockVars, storeVars>>

Tick == Advance(MaxTime)

MemCounterCall(p, op, delta, ttl) ==
    /\ backend = "memory"
    /\ MayStart(p)
    /\ LET r == IF op = "Increment"
                THEN MemIncrement(data, CounterKey, delta, ttl, now)
                ELSE MemDecrement(data, CounterKey, delta, ttl, now)
       IN  /\ data' = r.data
           /\ call' = [call EXCEPT ![p] =
                  [pc |-> "done", op |-> op, delta |-> delta, ttl |-> ttl,
                   ret |-> r.ret, err |-> FALSE, t |-> now,
                   fresh |-> ~MemLive(data, CounterKey, now), quiet |-> TRUE]]
    /\ UNCHANGED <<backend, now, rdb, limiterVars, lockVars, storeVars>>

MemIncrementCall(p) ==
    \E delta \in Deltas, ttl \in TTLs : MemCounterCall(p, "Increment", delta, ttl)

MemDecrementCall(p) ==
    \E delta \in Deltas, ttl \in TTLs : MemCounterCall(p, "Decrement", delta, ttl)

(* RedisCache.Increment sends IncrBy and Expire in one Pipeline, which is  *)
(* no transaction: the server runs the two commands one after the other    *)
(* and commands of other clients may run in between.                       *)

\* the server runs the call's INCRBY
RedisCounterIncrBy(p, op, delta, ttl) ==
    /\ backend = "redis"
    /\ MayStart(p)
    /\ LET d == IF op = "Increment" THEN delta ELSE 0 - delta
           r == RedisIncrBy(rdb, CounterKey, d, now)
           queued == IncrementExpireArg(ttl) > 0
       IN  /\ rdb' = r.db
           /\ call' = [call EXCEPT ![p] =
                  [pc |-> IF queued THEN "piped" ELSE "done",
                   op |-> op, delta |-> delta, ttl |-> ttl,
                   ret |-> r.ret, err |-> r.err, t |-> now,
                   fresh |-> ~RedisLive(rdb, CounterKey, now),
                   quiet |-> \A q \in Procs : call[q].pc # "piped"]]
    /\ UNCHANGED <<backend, now, data, limiterVars, lockVars, storeVars>>

RedisIncrementCall(p) ==
    \E delta \in Deltas, ttl \in TTLs : RedisCounterIncrBy(p, "Increment", delta, ttl)

RedisDecrementCall(p) ==
    \E delta \in Deltas, ttl \in TTLs : RedisCounterIncrBy(p, "Decrement", delta, ttl)

\* the server runs the call's EXPIRE and pipe.Exec returns
RedisCounterExpire(p) ==
    /\ backend = "redis"
    /\ call[p].pc = "piped"
    /\ rdb' = RedisExpire(rdb, CounterKey, IncrementExpireArg(call[p].ttl), now)
    /\ call' = [call EXCEPT ![p].pc = "done"]
    /\ UNCHANGED <<backend, now, data, limiterVars, lockVars, storeVars>>

\* pipe.Exec fails before the server ran anything: Increment returns (0, err)
RedisCounterFail(p) ==
    /\ backend = "redis"
    /\ MayStart(p)
    /\ call' = [call EXCEPT ![p] =
              [IdleCall EXCEPT !.pc = "done", !.err = TRUE]]
    /\ UNCHANGED <<backend, now, data, rdb, limiterVars, lockVars, storeVars>>

\* the connection is lost after INCRBY ran and before EXPIRE did
RedisCounterBreak(p) ==
    /\ backend = "redis"
    /\ call[p].pc = "piped"
    /\ call' = [call EXCEPT ![p] = [IdleCall EXCEPT !.pc = "done", !.err = TRUE]]
    /\ UNCHANGED <<backend, now, data, rdb, limiterVars, lockVars, storeVars>>

NextCounter ==
    \/ Tick
    \/ \E p \in Procs : MemIncrementCall(p)
    \/ \E p \in Procs : MemDecrementCall(p)
    \/ \E p \in Procs : RedisIncrementCall(p)
    \/ \E p \in Procs : RedisDecrementCall(p)
    \/ \E p \in Procs : RedisCounterExpire(p)
    \/ \E p \in Procs : RedisCounterFail(p)
    \/ \E p \in Procs : RedisCounterBreak(p)

SpecCounter == InitCounter /\ [][NextCounter]_vars

-----------------------------------------------------------------------------
(* Claims about counters *)

EffectiveTTL(ttl) == IF ttl = 0 THEN DefaultTTL ELSE ttl

\* instant t lies before the end of the TTL that call a started
BeforeTTLEnd(a, t) ==
    EffectiveTTL(call[a].ttl) > 0 => t < call[a].t + EffectiveTTL(call[a].ttl)

\* calls a..b are Increment(key, 1, ttl) calls with one ttl, the first on an
\* absent or expired key with no other call in flight, all returned without
\* error and all applied before the TTL of the first elapsed
IncrementBatch(a, b) ==
    /\ a <= b
    /\ call[a].fresh /\ call[a].quiet
    /\ \A p \in a .. b :
          /\ call[p].pc = "done" /\ ~call[p].err
          /\ call[p].op = "Increment" /\ call[p].delta = 1
          /\ call[p].ttl = call[a].ttl
    /\ BeforeTTLEnd(a, call[b].t)

CounterReadable ==
    IF backend = "memory" THEN MemLive(data, CounterKey, now)
    ELSE RedisLive(rdb, CounterKey, now)

CounterValue ==
    IF backend = "memory" THEN parseInt64(data[CounterKey].value)
    ELSE parseInt64(rdb[CounterKey].value)

CounterExpiry ==
    IF backend = "memory" THEN data[CounterKey].expiresAt
    ELSE rdb[CounterKey].expireAt

\* C1: N concurrent Increment(key, 1, ttl) calls on an absent or expired key
\* that complete before the TTL elapses return each of 1..N exactly once, and
\* the counter then holds N, in the in-process and in the networked backend.
C1_LinearizableCounters ==
    \A a, b \in Procs :
        IncrementBatch(a, b) =>
            /\ {call[p].ret : p \in a .. b} = 1 .. (b - a + 1)
            /\ ((\A p \in Procs : p > b => call[p].pc = "idle") /\ BeforeTTLEnd(a, now))
                   => (CounterReadable /\ CounterValue = b - a + 1)

\* two calls racing at one instant on a key that an earlier window left expired
C1_Witness ==
    \E a, b \in Procs :
        /\ 1 < a /\ a < b
        /\ IncrementBatch(a, b)
        /\ call[a].t = call[b].t
        /\ call[1].op = "Increment" /\ ~call[1].err /\ call[1].ret = 1

\* C2: the expiry instant of a live counter key is the one its creating
\* Increment fixed; no later Increment or Decrement on the live key moves it.
C2_TTLOnce ==
    [][(CounterReadable /\ CounterExpiry # ZeroTime /\ call' # call)
          => CounterExpiry' = CounterExpiry]_vars

\* C13: on the networked backend no client ever observes a counter key that
\* an Increment has incremented, with an expiry to apply, and that carries
\* no expiry.
C13_AtomicIncrementExpire ==
    \A p \in Procs :
        (backend = "redis" /\ call[p].pc = "piped" /\ RedisLive(rdb, CounterKey, now))
            => rdb[CounterKey].expireAt # ZeroTime

-----------------------------------------------------------------------------
(* Rate limiter: middlewares.RateLimit and checkRateLimit.                 *)
(* One identity sends NumReqs requests to one route.  The route's policy   *)
(* fixes the key prefix and the OnLimitReached handler; its window and     *)
(* quota are WindowSize and MaxRequests.                                   *)

Reqs == 1 .. NumReqs

Policies == {"global", "login"}

KeyPrefix(pol) == IF pol = "login" THEN "login:" ELSE "global:"

ClientIP == "10.0.0.1"

\* key := cfg.KeyPrefix + cfg.KeyGenerator(c)
RateLimitKey(pol) == KeyPrefix(pol) \o ClientIP

StatusOK == 200
StatusTooManyRequests == 429

\* a request before its handler chain has run: the gin context and the
\* RateLimitInfo of its check; t is the instant of its check (time.Now() in
\* checkRateLimit), tdone the instant its handler returned
NewReq ==
    [pc |-> "new", skip |-> FALSE, t |-> 0, tdone |-> 0,
     fresh |-> FALSE, quiet |-> FALSE,
     count |-> 0, err |-> FALSE,
     allowed |-> FALSE, limit |-> 0, remaining |-> 0, resetTime |-> ZeroTime,
     retryAt |-> ZeroTime,
     limitCalls |-> 0, aborted |-> FALSE, nextRan |-> FALSE,
     status |-> 0, code |-> "", logs |-> 0]

\* now.Truncate(d)
Truncate(t, d) == t - (t % d)

\* checkRateLimit, given what cache.Increment returned at clock t
checkRateLimitFailClosed(count, err, t) ==
    [allowed |-> ~err /\ count <= MaxRequests,
     limit |-> MaxRequests,
     remaining |-> IF err \/ MaxRequests - count < 0 THEN 0 ELSE MaxRequests - count,
     resetTime |-> Truncate(t, WindowSize) + WindowSize,
     retryAt |-> Truncate(t, WindowSize) + WindowSize]

checkRateLimitOffByOne(count, err, t) ==
    [allowed |-> err \/ count < MaxRequests,
     limit |-> MaxRequests,
     remaining |-> IF err THEN MaxRequests
                   ELSE IF MaxRequests - count < 0 THEN 0 ELSE MaxRequests - count,
     resetTime |-> Truncate(t, WindowSize) + WindowSize,
     retryAt |-> IF err THEN ZeroTime ELSE Truncate(t, WindowSize) + WindowSize]

checkRateLimit(count, err, t) ==
    LET resetTime == Truncate(t, WindowSize) + WindowSize
        remaining == IF MaxRequests - count < 0 THEN 0 ELSE MaxRequests - count
    IN  IF err
        THEN [allowed |-> TRUE, limit |-> MaxRequests, remaining |-> MaxRequests,
              resetTime |-> resetTime, retryAt |-> ZeroTime]
        ELSE [allowed |-> count <= MaxRequests, limit |-> MaxRequests,
              remaining |-> remaining, resetTime |-> resetTime, retryAt |-> resetTime]

\* gin: the handlers after this middleware (the protected operation) run
RunNext(c) ==
    [c EXCEPT !.nextRan = TRUE,
              !.status = IF c.status = 0 THEN StatusOK ELSE c.status]

\* cfg.OnLimitReached of the policy: defaultOnLimitReached answers through
\* common.Response (AbortWithStatusJSON); the login handler writes its own
\* JSON and calls c.Abort()
\* the log records the handler writes for a request: RateLimitWithLogger
\* wraps the handler with m.logger.Warn, and common.Response adds
\* logger.Error for a status >= 400; the loggers are taken to be set
LimitLogs(pol) == IF pol = "login" THEN 1 ELSE 2

OnLimitReachedNoAbort(pol, c) ==
    [c EXCEPT !.limitCalls = c.limitCalls + 1,
              !.status = StatusTooManyRequests,
              !.logs = c.logs + LimitLogs(pol),
              !.code = IF pol = "login" THEN "LOGIN_RATE_LIMIT_EXCEEDED"
                       ELSE "TOO_MANY_REQUESTS"]

OnLimitReached(pol, c) ==
    [c EXCEPT !.limitCalls = c.limitCalls + 1,
              !.aborted = TRUE,
              !.status = StatusTooManyRequests,
              !.logs = c.logs + LimitLogs(pol),
              !.code = IF pol = "login" THEN "LOGIN_RATE_LIMIT_EXCEEDED"
                       ELSE "TOO_MANY_REQUESTS"]

\* gin's handler loop after a middleware returned without calling c.Next():
\* the remaining handlers run unless the context was aborted
AfterReturn(c) == IF c.aborted THEN c ELSE RunNext(c)

\* the body of the RateLimit handler once checkRateLimit returned info
RateLimitDecide(pol, c, info) ==
    LET c1 == [c EXCEPT !.allowed = info.allowed, !.limit = info.limit,
                        !.remaining = info.remaining,
                        !.resetTime = info.resetTime, !.retryAt = info.retryAt]
    IN  IF ~info.allowed
        THEN AfterReturn(OnLimitReached(pol, c1))
        ELSE RunNext(c1)

InitLimiter ==
    /\ InitCommon
    /\ policy \in Policies
    /\ req = [r \in Reqs |-> NewReq]
    /\ call = <<>>
    /\ holds = <<>>
    /\ race = <<>>
    /\ lockOps = 0
    /\ ops = <<>>
    /\ members = {}

\* requests are interchangeable: they arrive in the order of their numbers
MayArrive(r) ==
    /\ req[r].pc = "new"
    /\ \A q \in Reqs : q < r => req[q].pc # "new"

\* the path is in cfg.SkipPaths or cfg.SkipCondition holds: c.Next() at once
RateLimitSkip(r) ==
    /\ MayArrive(r)
    /\ req' = [req EXCEPT ![r] =
           [RunNext(req[r]) EXCEPT !.pc = "done", !.skip = TRUE]]
    /\ UNCHANGED <<backend, now, data, rdb, call, policy, lockVars, storeVars>>

\* in-process backend: Increment is one step under the mutex, the rest of
\* the handler touches no shared state
RateLimitMem(r) ==
    /\ backend = "memory"
    /\ MayArrive(r)
    /\ LET key == RateLimitKey(policy)
           res == MemIncrement(data, key, 1, WindowSize, now)
           c == [req[r] EXCEPT !.pc = "done", !.t = now, !.tdone = now,
                               !.count = res.ret,
                               !.fresh = ~MemLive(data, key, now), !.quiet = TRUE]
       IN  /\ data' = res.data
           /\ req' = [req EXCEPT ![r] =
                  RateLimitDecide(policy, c, checkRateLimit(res.ret, FALSE, now))]
    /\ UNCHANGED <<backend, now, rdb, call, policy, lockVars, storeVars>>

\* networked backend: the server runs the INCRBY of the pipeline
RateLimitRedisIncrBy(r) ==
    /\ backend = "redis"
    /\ MayArrive(r)
    /\ LET key == RateLimitKey(policy)
           res == RedisIncrBy(rdb, key, 1, now)
       IN  /\ rdb' = res.db
           /\ req' = [req EXCEPT ![r] =
                  [req[r] EXCEPT !.pc = "piped", !.t = now, !.count = res.ret,
                                 !.fresh = ~RedisLive(rdb, key, now),
                                 !.quiet = \A q \in Reqs : req[q].pc # "piped"]]
    /\ UNCHANGED <<backend, now, data, call, policy, lockVars, storeVars>>

\* the server runs the EXPIRE, pipe.Exec returns and the handler finishes
RateLimitRedisExpire(r) ==
    /\ backend = "redis"
    /\ req[r].pc = "piped"
    /\ rdb' = RedisExpire(rdb, RateLimitKey(policy), IncrementExpireArg(WindowSize), now)
    /\ req' = [req EXCEPT ![r] =
           RateLimitDecide(policy, [req[r] EXCEPT !.pc = "done", !.tdone = now],
                           checkRateLimit(req[r].count, FALSE, req[r].t))]
    /\ UNCHANGED <<backend, now, data, call, policy, lockVars, storeVars>>

\* pipe.Exec fails before the server ran anything
RateLimitRedisFail(r) ==
    /\ backend = "redis"
    /\ MayArrive(r)
    /\ req' = [req EXCEPT ![r] =
           RateLimitDecide(policy,
               [req[r] EXCEPT !.pc = "done", !.t = now, !.tdone = now,
                              !.err = TRUE,
                              !.quiet = \A q \in Reqs : req[q].pc # "piped"],
               checkRateLimit(0, TRUE, now))]
    /\ UNCHANGED <<backend, now, data, rdb, call, policy, lockVars, storeVars>>

\* the connection is lost after INCRBY ran and before EXPIRE did
RateLimitRedisBreak(r) ==
    /\ backend = "redis"
    /\ req[r].pc = "piped"
    /\ req' = [req EXCEPT ![r] =
           RateLimitDecide(policy,
               [req[r] EXCEPT !.pc = "done", !.tdone = now, !.err = TRUE,
                              !.count = 0],
               checkRateLimit(0, TRUE, req[r].t))]
    /\ UNCHANGED <<backend, now, data, rdb, call, policy, lockVars, storeVars>>

TickReq == Advance(MaxReqTime)

NextLimiter ==
    \/ TickReq
    \/ \E r \in Reqs : RateLimitSkip(r)
    \/ \E r \in Reqs : RateLimitMem(r)
    \/ \E r \in Reqs : RateLimitRedisIncrBy(r)
    \/ \E r \in Reqs : RateLimitRedisExpire(r)
    \/ \E r \in Reqs : RateLimitRedisFail(r)
    \/ \E r \in Reqs : RateLimitRedisBreak(r)

SpecLimiter == InitLimiter /\ [][NextLimiter]_vars

-----------------------------------------------------------------------------
(* Claims about the rate limiter *)

Min(x, y) == IF x < y THEN x ELSE y

\* request r went through checkRateLimit and its handler has returned
Checked(r) == req[r].pc = "done" /\ ~req[r].skip

\* the requests up to b reached a working backend one after the other
Undisturbed(b) ==
    \A q \in 1 .. b :
        req[q].pc = "done" /\ (~req[q].skip => (~req[q].err /\ req[q].quiet))

\* the checked requests among a..b
CheckedIn(a, b) == {q \in a .. b : Checked(q)}

\* C3: for a counter created at t0 with window W, the first Increment after
\* t0 + W returns 1, however many Increments came between t0 and t0 + W.
C3_FreshWindowAfterEnd ==
    \A a, b \in Reqs :
        ( /\ a < b
          /\ Undisturbed(b)
          /\ Checked(a) /\ req[a].fresh
          /\ Checked(b) /\ req[b].t > req[a].t + WindowSize
          /\ \A q \in CheckedIn(a + 1, b - 1) : req[q].t < req[a].t + WindowSize )
        => req[b].count = 1

\* requests a..b were checked within one window that a opened on no counter,
\* none of them hitting a backend error
OneWindow(a, b) ==
    /\ a <= b
    /\ \A q \in a .. b : req[q].pc = "done" /\ (~req[q].skip => ~req[q].err)
    /\ Checked(a) /\ req[a].fresh
    /\ Checked(b) /\ req[b].t < req[a].t + WindowSize

\* C4: of N requests checked concurrently within one window that starts from
\* no counter, exactly min(N, maxRequests) are allowed, the others denied.
C4_QuotaUnderConcurrency ==
    \A a, b \in Reqs :
        OneWindow(a, b) =>
            Cardinality({q \in CheckedIn(a, b) : req[q].allowed})
                = Min(Cardinality(CheckedIn(a, b)), MaxRequests)

\* more requests than the quota, all at one instant, the last one denied
C4_Witness ==
    \E a, b \in Reqs :
        /\ OneWindow(a, b)
        /\ Cardinality(CheckedIn(a, b)) > MaxRequests
        /\ req[b].t = req[a].t
        /\ ~req[b].allowed

\* request a is the first of its identity, or comes after a pause longer than
\* the window in which the identity sent nothing
AfterPause(a) ==
    /\ Checked(a)
    /\ \A q \in CheckedIn(1, a - 1) : req[a].t > req[q].tdone + WindowSize

C6_FailOpen ==
    \A r \in Reqs :
        (Checked(r) /\ req[r].err) =>
            /\ req[r].allowed /\ req[r].nextRan
            /\ req[r].status # StatusTooManyRequests
            /\ req[r].limitCalls = 0
            /\ req[r].limit = MaxRequests
            /\ req[r].remaining = MaxRequests

\* a backend error on a request that would otherwise exceed the quota
C6_Witness ==
    \E r \in Reqs :
        /\ Checked(r) /\ req[r].err
        /\ Cardinality({q \in CheckedIn(1, r - 1) : ~req[q].err /\ req[q].t = req[r].t})
               >= MaxRequests

\* C7: a denied request invokes the policy's OnLimitReached exactly once and
\* the protected operation does not run; the default handler answers 429
\* with code TOO_MANY_REQUESTS.
C7_DeniedNeverProceeds ==
    \A r \in Reqs :
        (Checked(r) /\ ~req[r].allowed) =>
            /\ req[r].limitCalls = 1
            /\ ~req[r].nextRan
            /\ (policy = "global" =>
                   /\ req[r].status = StatusTooManyRequests
                   /\ req[r].code = "TOO_MANY_REQUESTS")

\* a request denied under the default handler
C7_Witness ==
    \E r \in Reqs :
        /\ Checked(r) /\ ~req[r].allowed
        /\ policy = "global"
        /\ req[r].count > MaxRequests

\* requests a..b were all handled, none hit a backend error, and the checks
\* of a and b lie at most one window length apart
OneInterval(a, b) ==
    /\ a <= b
    /\ \A q \in a .. b : req[q].pc = "done" /\ ~req[q].err
    /\ Checked(a) /\ Checked(b)
    /\ req[b].t <= req[a].t + WindowSize

\* C26: in any time interval of length windowSize, at most 2 x maxRequests
\* requests of the identity are allowed, whatever their arrival times.
C26_BurstBound ==
    \A a, b \in Reqs :
        OneInterval(a, b) =>
            Cardinality({q \in CheckedIn(a, b) : req[q].allowed}) <= 2 * MaxRequests

\* more than 2 x maxRequests requests were checked in one such interval,
\* some allowed and some denied
C26_Witness ==
    \E a, b \in Reqs :
        /\ OneInterval(a, b)
        /\ Cardinality(CheckedIn(a, b)) > 2 * MaxRequests
        /\ req[a].allowed /\ ~req[b].allowed

\* C27: a request that follows a denial with retry_at = T, with no request
\* of the identity in between and none in flight, and that is checked at or
\* after T, is allowed.
C27_RetryHonoured ==
    \A a, b \in Reqs :
        ( /\ a < b
          /\ Checked(a) /\ ~req[a].allowed /\ ~req[a].err
          /\ Checked(b) /\ ~req[b].err /\ req[b].quiet
          /\ CheckedIn(a + 1, b - 1) = {}
          /\ req[b].t >= req[a].retryAt )
        => req[b].allowed

\* C15: every request whose store.Increment returned an error, and which the
\* limiter therefore let through, has a log record written for it.
C15_FailOpenLogged ==
    \A r \in Reqs : (Checked(r) /\ req[r].err) => req[r].logs >= 1

-----------------------------------------------------------------------------
(* Lock / Unlock.  NumClients clients compete for the lock of one resource *)
(* with at most MaxLockOps calls.  MemoryCache.Lock and Unlock run under   *)
(* m.mu; RedisCache.Lock is one SETNX and Unlock one DEL on the server.    *)
(* holds[c] remembers the last Lock of client c that returned true, until  *)
(* c calls Unlock.  race collects the Lock calls made at one instant on a  *)
(* lock that was free when the first of them ran.                          *)

Clients == 1 .. NumClients

LockTTLs == 0 .. MaxLockTTL

LockResource == "job"

\* the expiry instant Lock gives the lock entry
LockExpiresAt(ttl, t) == IF ttl > 0 THEN t + ttl ELSE ZeroTime

\* MemoryCache.Lock: [ret, data]
MemLockNoCheck(d, key, ttl, t) ==
    LET lockKey == LockKey(key)
        item == memoryItem(LockedValue, LockExpiresAt(ttl, t))
    IN  [ret |-> TRUE,
         data |-> [k \in DOMAIN d \cup {lockKey} |-> IF k = lockKey THEN item ELSE d[k]]]

MemLockRefresh(d, key, ttl, t) ==
    LET lockKey == LockKey(key)
        item == memoryItem(LockedValue, LockExpiresAt(ttl, t))
    IN  [ret |-> ~(lockKey \in DOMAIN d /\ ~isExpired(d[lockKey], t)),
         data |-> [k \in DOMAIN d \cup {lockKey} |-> IF k = lockKey THEN item ELSE d[k]]]

MemLock(d, key, ttl, t) ==
    LET lockKey == LockKey(key)
        item == memoryItem(LockedValue, LockExpiresAt(ttl, t))
    IN  IF lockKey \in DOMAIN d /\ ~isExpired(d[lockKey], t)
        THEN [ret |-> FALSE, data |-> d]
        ELSE [ret |-> TRUE,
              data |-> [k \in DOMAIN d \cup {lockKey} |->
                           IF k = lockKey THEN item ELSE d[k]]]

\* MemoryCache.Delete
MemDelete(d, key) == [k \in DOMAIN d \ {key} |-> d[k]]

\* MemoryCache.Unlock
MemUnlock(d, key) == MemDelete(d, LockKey(key))

\* SET key value NX [EX ttl]: [ret, db]
RedisSetNX(rd, key, value, ttl, t) ==
    IF RedisLive(rd, key, t)
    THEN [ret |-> FALSE, db |-> rd]
    ELSE LET item == [value |-> value, expireAt |-> LockExpiresAt(ttl, t)]
         IN  [ret |-> TRUE,
              db |-> [k \in DOMAIN rd \cup {key} |-> IF k = key THEN item ELSE rd[k]]]

\* DEL key
RedisDel(rd, key) == [k \in DOMAIN rd \ {key} |-> rd[k]]

NoHold == [held |-> FALSE, t |-> 0, ttl |-> 0]

NoRace == [open |-> FALSE, t0 |-> 0, expired |-> FALSE, n |-> 0,
           callers |-> {}, wins |-> 0, errs |-> 0]

InitLock ==
    /\ InitCommon
    /\ call = <<>>
    /\ policy = "none"
    /\ req = <<>>
    /\ holds = [c \in Clients |-> NoHold]
    /\ race = NoRace
    /\ lockOps = 0
    /\ ops = <<>>
    /\ members = {}

\* the lock entry of the resource is absent or expired
LockFree ==
    IF backend = "memory" THEN ~MemLive(data, LockKey(LockResource), now)
    ELSE ~RedisLive(rdb, LockKey(LockResource), now)

\* an entry of the lock is stored but has expired
LockStale ==
    /\ LockFree
    /\ IF backend = "memory" THEN LockKey(LockResource) \in DOMAIN data
       ELSE LockKey(LockResource) \in DOMAIN rdb

\* the record of racing Lock calls after client c's call returned (ret, err)
RaceAfter(c, ret, err) ==
    LET w == IF ret THEN 1 ELSE 0
        e == IF err THEN 1 ELSE 0
    IN  IF race.open /\ race.t0 = now
        THEN [race EXCEPT !.n = race.n + 1, !.callers = race.callers \cup {c},
                          !.wins = race.wins + w, !.errs = race.errs + e]
        ELSE IF LockFree
        THEN [open |-> TRUE, t0 |-> now, expired |-> LockStale, n |-> 1,
              callers |-> {c}, wins |-> w, errs |-> e]
        ELSE race

HoldsAfter(c, ret, ttl) ==
    IF ret THEN [holds EXCEPT ![c] = [held |-> TRUE, t |-> now, ttl |-> ttl]]
    ELSE holds

MemLockCall(c) ==
    /\ backend = "memory"
    /\ lockOps < MaxLockOps
    /\ \E ttl \in LockTTLs :
          LET r == MemLock(data, LockResource, ttl, now)
          IN  /\ data' = r.data
              /\ holds' = HoldsAfter(c, r.ret, ttl)
              /\ race' = RaceAfter(c, r.ret, FALSE)
    /\ lockOps' = lockOps + 1
    /\ UNCHANGED <<backend, now, rdb, call, limiterVars, storeVars>>

MemUnlockCall(c) ==
    /\ backend = "memory"
    /\ lockOps < MaxLockOps
    /\ data' = MemUnlock(data, LockResource)
    /\ holds' = [holds EXCEPT ![c] = NoHold]
    /\ race' = [race EXCEPT !.open = FALSE]
    /\ lockOps' = lockOps + 1
    /\ UNCHANGED <<backend, now, rdb, call, limiterVars, storeVars>>

\* RedisCache.Lock: the server runs SETNX and the reply arrives
RedisLockCall(c) ==
    /\ backend = "redis"
    /\ lockOps < MaxLockOps
    /\ \E ttl \in LockTTLs :
          LET r == RedisSetNX(rdb, LockKey(LockResource), LockedValue, ttl, now)
          IN  /\ rdb' = r.db
              /\ holds' = HoldsAfter(c, r.ret, ttl)
              /\ race' = RaceAfter(c, r.ret, FALSE)
    /\ lockOps' = lockOps + 1
    /\ UNCHANGED <<backend, now, data, call, limiterVars, storeVars>>

\* the command never reaches the server: Lock returns (false, err)
RedisLockFail(c) ==
    /\ backend = "redis"
    /\ lockOps < MaxLockOps
    /\ race' = RaceAfter(c, FALSE, TRUE)
    /\ lockOps' = lockOps + 1
    /\ UNCHANGED <<backend, now, data, rdb, call, limiterVars, holds, storeVars>>

\* the server runs SETNX but the reply is lost: Lock returns (false, err)
RedisLockLost(c) ==
    /\ backend = "redis"
    /\ lockOps < MaxLockOps
    /\ \E ttl \in LockTTLs :
          rdb' = RedisSetNX(rdb, LockKey(LockResource), LockedValue, ttl, now).db
    /\ race' = RaceAfter(c, FALSE, TRUE)
    /\ lockOps' = lockOps + 1
    /\ UNCHANGED <<backend, now, data, call, limiterVars, holds, storeVars>>

\* RedisCache.Unlock: the server runs DEL
RedisUnlockCall(c) ==
    /\ backend = "redis"
    /\ lockOps < MaxLockOps
    /\ rdb' = RedisDel(rdb, LockKey(LockResource))
    /\ holds' = [holds EXCEPT ![c] = NoHold]
    /\ race' = [race EXCEPT !.open = FALSE]
    /\ lockOps' = lockOps + 1
    /\ UNCHANGED <<backend, now, data, call, limiterVars, storeVars>>

\* DEL never reaches the server: Unlock returns err and nothing is released
RedisUnlockFail(c) ==
    /\ backend = "redis"
    /\ lockOps < MaxLockOps
    /\ lockOps' = lockOps + 1
    /\ UNCHANGED <<backend, now, data, rdb, call, limiterVars, holds, race, storeVars>>

NextLock ==
    \/ Tick
    \/ \E c \in Clients : MemLockCall(c)
    \/ \E c \in Clients : MemUnlockCall(c)
    \/ \E c \in Clients : RedisLockCall(c)
    \/ \E c \in Clients : RedisLockFail(c)
    \/ \E c \in Clients : RedisLockLost(c)
    \/ \E c \in Clients : RedisUnlockCall(c)
    \/ \E c \in Clients : RedisUnlockFail(c)

SpecLock == InitLock /\ [][NextLock]_vars

\* time does not stop
SpecLockLive == SpecLock /\ WF_vars(Tick)

-----------------------------------------------------------------------------
(* Claims about the lock *)

\* client c holds the lock: its Lock returned true, it has not called Unlock
\* since and the ttl of that Lock has not elapsed
Holding(c) ==
    /\ holds[c].held
    /\ holds[c].ttl > 0 => ~(now > holds[c].t + holds[c].ttl)


\* C8: at any time at most one client holds the lock of the resource, after
\* any interleaving of Lock and Unlock calls by any number of clients.
C8_AtMostOneHolder == Cardinality({c \in Clients : Holding(c)}) <= 1

\* C9: of the Lock calls that race for a free (absent or expired) lock,
\* exactly one returns true and every other one returns false.
C9_LockRace ==
    (race.open /\ race.errs = 0) => race.wins = 1

\* calls of distinct clients race for a lock whose entry had expired
C9_Witness ==
    /\ race.open /\ race.errs = 0 /\ race.expired
    /\ race.n >= 2 /\ Cardinality(race.callers) >= 2
    /\ race.wins = 1

\* the clock leaves room for the longest ttl to elapse
RoomForTTL == now + MaxLockTTL < MaxTime

\* C10: every acquired lock that is never released eventually becomes
\* acquirable again: a lock that is taken is free at some later time.
C10_NoPermanentLock == (~LockFree /\ RoomForTTL) ~> LockFree

-----------------------------------------------------------------------------
(* Key/value operations of the store.  Any number of goroutines call them; *)
(* one goroutine is observed: ops is the operation it is running or ran    *)
(* last, with its arguments and what it returned.  The part of an          *)
(* operation that runs under m.mu is one step, whoever calls it.  Get,     *)
(* Exists and GetTTL release the mutex after fetching the entry and        *)
(* inspect it afterwards: pc = "fetched" is the point between the two,     *)
(* where the operation holds a pointer to the entry (item), which stays    *)
(* valid when the map no longer holds it (linked = FALSE).                 *)

StoreKeys == {<<"u", "1">>, <<"s", "1">>}

Payloads == {<<"x">>}

ErrKeyNotFound == "key not found"
ErrInvalidTTL == "invalid TTL"
ErrSerialization == "serialization failed"

NoItem == [value |-> <<>>, expiresAt |-> ZeroTime]

IdleOp ==
    [pc |-> "idle", name |-> "none", key |-> <<>>, ttl |-> 0,
     item |-> NoItem, found |-> FALSE, stale |-> FALSE, linked |-> FALSE,
     raced |-> FALSE,
     bytes |-> <<>>, flag |-> FALSE, num |-> 0, got |-> <<>>, dead |-> {},
     args |-> <<>>, before |-> {}, err |-> "", wrap |-> ""]

InitStore ==
    /\ InitCommon
    /\ call = <<>>
    /\ policy = "none"
    /\ req = <<>>
    /\ holds = <<>>
    /\ race = <<>>
    /\ lockOps = 0
    /\ ops = IdleOp
    /\ members = {}

\* the observed goroutine is free to issue its next operation
MayIssue == ops.pc \in {"idle", "done"}

\* the entry of key has expired: its expiry instant has passed
Stale(d, key, t) ==
    key \in DOMAIN d /\ d[key].expiresAt # ZeroTime /\ t > d[key].expiresAt

\* the map drops or replaces the entries of keys: an operation that fetched
\* one of them keeps the entry it holds
Unlink(o, keys) ==
    IF o.pc = "fetched" /\ o.key \in keys THEN [o EXCEPT !.linked = FALSE] ELSE o

\* a mutation of the entries of keys was made by the observed goroutine,
\* which then has record rec, or by another goroutine
Issued(rec, keys) ==
    \/ MayIssue /\ ops' = rec
    \/ ops' = Unlink(ops, keys)

\* MemoryCache.Set
MemSet(d, key, value, ttl, t) ==
    [k \in DOMAIN d \cup {key} |->
        IF k = key THEN memoryItem(value, ExpiresAt(ttl, t)) ELSE d[k]]

\* MemoryCache.cleanup: the keys the sweep removes
CleanupExpired(d, t) ==
    {k \in DOMAIN d : d[k].expiresAt # ZeroTime /\ t > d[k].expiresAt}

\* MemoryCache.Get after the fetch: [bytes, err]
MemGetKeepExpired(item, found, t) ==
    IF ~found THEN [bytes |-> <<>>, err |-> ErrKeyNotFound]
    ELSE [bytes |-> item.value, err |-> ""]

MemGetReturn(item, found, t) ==
    IF ~found \/ isExpired(item, t)
    THEN [bytes |-> <<>>, err |-> ErrKeyNotFound]
    ELSE [bytes |-> item.value, err |-> ""]

\* MemoryCache.Exists after the fetch
MemExistsReturn(item, found, t) == ~(~found \/ isExpired(item, t))

\* MemoryCache.GetMultiple
MemGetMultiple(d, keys, t) ==
    [k \in {x \in keys : x \in DOMAIN d /\ ~isExpired(d[x], t)} |-> d[k].value]

\* MemoryCache.GetTTL after the fetch: [num, err]; -1: no expiration
MemGetTTLReturn(item, found, t) ==
    IF ~found THEN [num |-> 0, err |-> ErrKeyNotFound]
    ELSE IF item.expiresAt = ZeroTime THEN [num |-> -1, err |-> ""]
    ELSE IF item.expiresAt - t < 0 THEN [num |-> 0, err |-> ""]
    ELSE [num |-> item.expiresAt - t, err |-> ""]

\* MemoryCache.SetTTL: [err, data]; the entry is changed in place
MemSetTTL(d, key, ttl, t) ==
    IF key \notin DOMAIN d THEN [err |-> ErrKeyNotFound, data |-> d]
    ELSE [err |-> "", data |-> [d EXCEPT ![key].expiresAt = LockExpiresAt(ttl, t)]]

StoreSet ==
    /\ backend = "memory"
    /\ \E key \in StoreKeys, value \in Payloads, ttl \in TTLs :
          /\ data' = MemSet(data, key, value, ttl, now)
          /\ Issued([IdleOp EXCEPT !.pc = "done", !.name = "Set", !.key = key,
                                   !.ttl = ttl, !.bytes = value], {key})
    /\ UNCHANGED <<backend, now, rdb, call, limiterVars, lockVars, members>>

StoreDelete ==
    /\ backend = "memory"
    /\ \E key \in StoreKeys :
          /\ key \in DOMAIN data
          /\ data' = MemDelete(data, key)
          /\ Issued([IdleOp EXCEPT !.pc = "done", !.name = "Delete", !.key = key],
                    {key})
    /\ UNCHANGED <<backend, now, rdb, call, limiterVars, lockVars, members>>

\* item, exists := m.data[key] under m.mu.RLock()
StoreFetch(name) ==
    /\ backend = "memory"
    /\ MayIssue
    /\ \E key \in StoreKeys :
          ops' = [IdleOp EXCEPT !.pc = "fetched", !.name = name, !.key = key,
                                !.found = key \in DOMAIN data,
                                !.stale = Stale(data, key, now),
                                !.linked = key \in DOMAIN data,
                                !.item = IF key \in DOMAIN data THEN data[key]
                                         ELSE NoItem]
    /\ UNCHANGED <<backend, now, data, rdb, call, limiterVars, lockVars, members>>

StoreGetFetch == StoreFetch("Get")

StoreGetReturn ==
    /\ ops.pc = "fetched" /\ ops.name = "Get"
    /\ LET r == MemGetReturn(ops.item, ops.found, now)
       IN  ops' = [ops EXCEPT !.pc = "done", !.bytes = r.bytes, !.err = r.err]
    /\ UNCHANGED <<backend, now, data, rdb, call, limiterVars, lockVars, members>>

StoreExistsFetch == StoreFetch("Exists")

StoreExistsReturn ==
    /\ ops.pc = "fetched" /\ ops.name = "Exists"
    /\ ops' = [ops EXCEPT !.pc = "done",
                          !.flag = MemExistsReturn(ops.item, ops.found, now)]
    /\ UNCHANGED <<backend, now, data, rdb, call, limiterVars, lockVars, members>>

StoreGetTTLFetch == StoreFetch("GetTTL")

StoreGetTTLReturn ==
    /\ ops.pc = "fetched" /\ ops.name = "GetTTL"
    /\ LET r == MemGetTTLReturn(ops.item, ops.found, now)
       IN  ops' = [ops EXCEPT !.pc = "done", !.num = r.num, !.err = r.err,
                              !.flag = ops.found /\ ~isExpired(ops.item, now)]
    /\ UNCHANGED <<backend, now, data, rdb, call, limiterVars, lockVars, members>>

\* SetTTL writes item.expiresAt under m.mu.Lock().  Called by another
\* goroutine while the observed operation holds that entry outside the
\* mutex and has yet to read the field, the write races with the read,
\* which may see the old or the new value.
StoreSetTTL ==
    /\ backend = "memory"
    /\ \E key \in StoreKeys, ttl \in TTLs :
          LET r == MemSetTTL(data, key, ttl, now)
          IN  /\ data' = r.data
              /\ \/ /\ MayIssue
                    /\ ops' = [IdleOp EXCEPT !.pc = "done", !.name = "SetTTL",
                                             !.key = key, !.ttl = ttl, !.err = r.err,
                                             !.found = key \in DOMAIN data,
                                             !.stale = Stale(data, key, now)]
                 \/ /\ ops.pc = "fetched" /\ ops.key = key /\ ops.linked
                    /\ \E seen \in {ops.item.expiresAt, r.data[key].expiresAt} :
                          ops' = [ops EXCEPT !.raced = TRUE, !.item.expiresAt = seen]
                 \/ /\ ~(ops.pc = "fetched" /\ ops.key = key /\ ops.linked)
                    /\ ops' = ops
    /\ UNCHANGED <<backend, now, rdb, call, limiterVars, lockVars, members>>

\* the glob patterns: "*" any run of characters, "?" any one character
Patterns == {<<"*">>, <<"u", "*">>, <<"?", "1">>, <<"s", "1">>}

\* filepath.Match(pattern, name); the keys hold no path separator
RECURSIVE Match(_, _)
Match(pattern, name) ==
    IF pattern = <<>> THEN name = <<>>
    ELSE IF Head(pattern) = "*"
    THEN \E i \in 0 .. Len(name) :
            Match(Tail(pattern), SubSeq(name, i + 1, Len(name)))
    ELSE /\ name # <<>>
         /\ Head(pattern) = "?" \/ Head(pattern) = Head(name)
         /\ Match(Tail(pattern), Tail(name))

\* StoreKeys in the order of sort.Strings
SortedKeys == << <<"s", "1">>, <<"u", "1">> >>

\* MemoryCache.GetKeys
MemGetKeys(d, pattern) ==
    SelectSeq(SortedKeys, LAMBDA k : k \in DOMAIN d /\ Match(pattern, k))

\* GetKeys in one piece under m.mu.RLock()
StoreGetKeys ==
    /\ backend = "memory"
    /\ MayIssue
    /\ \E pattern \in Patterns :
          ops' = [IdleOp EXCEPT !.pc = "done", !.name = "GetKeys",
                                !.args = pattern,
                                !.got = MemGetKeys(data, pattern),
                                !.dead = {k \in StoreKeys : Stale(data, k, now)},
                                !.before = DOMAIN data]
    /\ UNCHANGED <<backend, now, data, rdb, call, limiterVars, lockVars, members>>

\* GetMultiple of every key, in one piece under m.mu.RLock()
StoreGetMultiple ==
    /\ backend = "memory"
    /\ MayIssue
    /\ ops' = [IdleOp EXCEPT !.pc = "done", !.name = "GetMultiple",
                             !.got = MemGetMultiple(data, StoreKeys, now),
                             !.dead = {k \in StoreKeys :
                                          k \notin DOMAIN data \/ Stale(data, k, now)}]
    /\ UNCHANGED <<backend, now, data, rdb, call, limiterVars, lockVars, members>>

\* the background sweep (cleanupExpired -> cleanup) runs
StoreCleanup ==
    /\ backend = "memory"
    /\ CleanupExpired(data, now) # {}
    /\ data' = [k \in DOMAIN data \ CleanupExpired(data, now) |-> data[k]]
    /\ ops' = Unlink(ops, CleanupExpired(data, now))
    /\ UNCHANGED <<backend, now, rdb, call, limiterVars, lockVars, members>>

\* client.Set of go-redis: SET key value, with PX/EX when ttl > 0, with
\* KEEPTTL when ttl is redis.KeepTTL (-1ns, keep), and bare otherwise
RedisSet(rd, key, value, ttl, keep, t) ==
    LET eff == IF ttl = 0 THEN DefaultTTL ELSE ttl
        exp == IF eff > 0 THEN t + eff
               ELSE IF keep /\ RedisLive(rd, key, t) THEN rd[key].expireAt
               ELSE ZeroTime
    IN  [k \in DOMAIN rd \cup {key} |->
            IF k = key THEN [value |-> value, expireAt |-> exp] ELSE rd[k]]

\* client.TTL of go-redis: -2 for a key the server does not hold, -1 for a
\* key without expire, both returned as a value with a nil error
RedisTTL(rd, key, t) ==
    IF ~RedisLive(rd, key, t) THEN -2
    ELSE IF rd[key].expireAt = ZeroTime THEN -1
    ELSE rd[key].expireAt - t

\* RedisCache.Set, by the observed client or another one
StoreRedisSet ==
    /\ backend = "redis"
    /\ \E key \in StoreKeys, value \in Payloads, ttl \in TTLs, keep \in BOOLEAN :
          /\ keep => ttl < 0
          /\ rdb' = RedisSet(rdb, key, value, ttl, keep, now)
          /\ Issued([IdleOp EXCEPT !.pc = "done", !.name = "Set", !.key = key,
                                   !.ttl = ttl, !.bytes = value], {key})
    /\ UNCHANGED <<backend, now, data, call, limiterVars, lockVars, members>>

\* RedisCache.GetTTL; item is the entry the server holds
StoreRedisGetTTL ==
    /\ backend = "redis"
    /\ MayIssue
    /\ \E key \in StoreKeys :
          ops' = [IdleOp EXCEPT !.pc = "done", !.name = "GetTTL", !.key = key,
                                !.found = key \in DOMAIN rdb,
                                !.flag = RedisLive(rdb, key, now),
                                !.item = IF key \in DOMAIN rdb
                                         THEN memoryItem(rdb[key].value, rdb[key].expireAt)
                                         ELSE NoItem,
                                !.num = RedisTTL(rdb, key, now)]
    /\ UNCHANGED <<backend, now, data, rdb, call, limiterVars, lockVars, members>>

\* the values handed to SetJSON: a Go string, and a channel, which
\* encoding/json cannot marshal
JSONValues == {[kind |-> "string", s |-> <<"x">>], [kind |-> "chan", s |-> <<>>]}

ErrUnsupportedType == "json: unsupported type"

\* json.Marshal: [data, err]
Marshal(v) ==
    IF v.kind = "string"
    THEN [data |-> <<"\"">> \o v.s \o <<"\"">>, err |-> ""]
    ELSE [data |-> <<>>, err |-> ErrUnsupportedType]

\* the ways to call SetJSON: the backend's method, the package-level helper
SetJSONVia == {"method", "helper"}

\* SetJSON: err is the innermost error (what errors.Is compares), wrap the
\* Operation of the *Error around it, if any; flag: the marshal failed
SetJSONRecord(via, key, ttl, m) ==
    [IdleOp EXCEPT !.pc = "done", !.name = "SetJSON", !.key = key, !.ttl = ttl,
                   !.bytes = m.data, !.flag = m.err # "", !.err = m.err,
                   !.wrap = IF m.err # "" /\ via = "helper" THEN "serialize" ELSE ""]

\* json.Marshal fails: SetJSON returns at once
StoreSetJSONFail ==
    /\ MayIssue
    /\ \E via \in SetJSONVia, key \in StoreKeys, v \in JSONValues :
          /\ Marshal(v).err # ""
          /\ ops' = SetJSONRecord(via, key, 0, Marshal(v))
    /\ UNCHANGED <<backend, now, data, rdb, call, limiterVars, lockVars, members>>

\* json.Marshal succeeds: method and helper alike hand the bytes to Set
StoreSetJSON ==
    /\ \E key \in StoreKeys, v \in JSONValues, ttl \in TTLs :
          /\ Marshal(v).err = ""
          /\ Issued(SetJSONRecord("method", key, ttl, Marshal(v)), {key})
          /\ IF backend = "memory"
             THEN data' = MemSet(data, key, Marshal(v).data, ttl, now) /\ rdb' = rdb
             ELSE rdb' = RedisSet(rdb, key, Marshal(v).data, ttl, FALSE, now)
                  /\ data' = data
    /\ UNCHANGED <<backend, now, call, limiterVars, lockVars, members>>

NextStore ==
    \/ Tick
    \/ StoreCleanup
    \/ StoreSet
    \/ StoreDelete
    \/ StoreGetFetch
    \/ StoreGetReturn
    \/ StoreExistsFetch
    \/ StoreExistsReturn
    \/ StoreGetMultiple
    \/ StoreGetTTLFetch
    \/ StoreGetTTLReturn
    \/ StoreSetTTL
    \/ StoreGetKeys
    \/ StoreRedisSet
    \/ StoreRedisGetTTL
    \/ StoreSetJSONFail
    \/ StoreSetJSON

SpecStore == InitStore /\ [][NextStore]_vars

-----------------------------------------------------------------------------
(* Claims about reads of the in-process store *)

\* the observed operation has returned and was a name on an entry that was
\* missing (never set, deleted or swept) when it was fetched
ReadMiss(name) == ops.pc = "done" /\ ops.name = name /\ ~ops.found

\* ... on an entry whose expiry instant had passed when it was fetched
\* and stayed as it was until the operation returned
ReadExpired(name) ==
    ops.pc = "done" /\ ops.name = name /\ ops.found /\ ops.stale /\ ~ops.raced

\* C11: a Get of a key whose expiry instant has passed returns the NotFound
\* error of a Get of a missing key, Exists returns false and GetMultiple
\* omits the key, whether or not the sweep has removed the entry.
C11_ExpiredEqualsAbsent ==
    /\ (ReadMiss("Get") \/ ReadExpired("Get"))
          => (ops.err = ErrKeyNotFound /\ ops.bytes = <<>>)
    /\ (ReadMiss("Exists") \/ ReadExpired("Exists")) => ~ops.flag
    /\ (ops.pc = "done" /\ ops.name = "GetMultiple")
          => DOMAIN ops.got \cap ops.dead = {}

\* a Get found an expired entry that the sweep had not removed, neither
\* before the fetch nor before the return, and answered like a miss
C11_Witness ==
    /\ ReadExpired("Get") /\ ops.linked
    /\ ops.err = ErrKeyNotFound

-----------------------------------------------------------------------------
(* Sets.  A set is stored under its key as the concatenation, for each     *)
(* member in the iteration order of a Go map, of the member's length on 4  *)
(* bytes (big endian) and the member's bytes.  Bytes are numbers 0..255.   *)

SetKey == <<"t", "1">>

SetMembers == {<<97>>, <<98, 99>>}

\* the members ...[]byte of one SAdd or SRem call
SetArgs == {<<m>> : m \in SetMembers} \cup {<<m, n>> : m, n \in SetMembers}

Range(sq) == {sq[i] : i \in 1 .. Len(sq)}

\* the orders in which a range over the map may visit the members
Orders(set) == {sq \in [1 .. Cardinality(set) -> set] : Range(sq) = set}

RECURSIVE serializeSetMap(_)
serializeSetMap(order) ==
    IF Len(order) = 0 THEN <<>>
    ELSE LET memberLen == Len(Head(order))
         IN  << (memberLen \div 16777216) % 256, (memberLen \div 65536) % 256,
                (memberLen \div 256) % 256, memberLen % 256 >>
             \o Head(order) \o serializeSetMap(Tail(order))

\* deserializeSetMap from byte i on: [err, set]
RECURSIVE deserializeFrom(_, _)
deserializeFrom(bytes, i) ==
    IF ~(i < Len(bytes) + 1) THEN [err |-> FALSE, set |-> {}]
    ELSE IF i + 3 > Len(bytes) THEN [err |-> TRUE, set |-> {}]
    ELSE LET memberLen == bytes[i] * 16777216 + bytes[i + 1] * 65536
                          + bytes[i + 2] * 256 + bytes[i + 3]
         IN  IF i + 3 + memberLen > Len(bytes) THEN [err |-> TRUE, set |-> {}]
             ELSE LET rest == deserializeFrom(bytes, i + 4 + memberLen)
                  IN  [err |-> rest.err,
                       set |-> IF rest.err THEN {}
                               ELSE rest.set \cup {SubSeq(bytes, i + 4, i + 3 + memberLen)}]

deserializeSetMap(bytes) == deserializeFrom(bytes, 1)

\* the set a read of key sees: [err, set]; no live entry is the empty set
MemSetOf(d, key, t) ==
    IF key \notin DOMAIN d \/ isExpired(d[key], t) THEN [err |-> FALSE, set |-> {}]
    ELSE deserializeSetMap(d[key].value)

\* MemoryCache.SAdd: the outcomes [ret, data], one for each iteration order
MemSAddOverwrite(d, key, args, t) ==
    {[ret |-> Cardinality(Range(args)),
      data |-> [k \in DOMAIN d \cup {key} |->
                   IF k = key
                   THEN memoryItem(serializeSetMap(order), ExpiresAt(0, t))
                   ELSE d[k]]] : order \in Orders(Range(args))}

MemSAdd(d, key, args, t) ==
    IF key \notin DOMAIN d \/ isExpired(d[key], t)
    THEN {[ret |-> Cardinality(Range(args)),
           data |-> [k \in DOMAIN d \cup {key} |->
                        IF k = key
                        THEN memoryItem(serializeSetMap(order), ExpiresAt(0, t))
                        ELSE d[k]]] : order \in Orders(Range(args))}
    ELSE LET old == deserializeSetMap(d[key].value)
             added == Cardinality(Range(args) \ old.set)
         IN  IF old.err \/ added = 0 THEN {[ret |-> 0, data |-> d]}
             ELSE {[ret |-> added,
                    data |-> [d EXCEPT ![key].value = serializeSetMap(order)]] :
                      order \in Orders(old.set \cup Range(args))}

\* MemoryCache.SRem
MemSRem(d, key, args, t) ==
    IF key \notin DOMAIN d \/ isExpired(d[key], t) THEN {[ret |-> 0, data |-> d]}
    ELSE LET old == deserializeSetMap(d[key].value)
             removed == Cardinality(Range(args) \cap old.set)
         IN  IF old.err \/ removed = 0 THEN {[ret |-> 0, data |-> d]}
             ELSE IF old.set \ Range(args) = {}
             THEN {[ret |-> removed, data |-> MemDelete(d, key)]}
             ELSE {[ret |-> removed,
                    data |-> [d EXCEPT ![key].value = serializeSetMap(order)]] :
                      order \in Orders(old.set \ Range(args))}

\* the members put into the set since its entry was created
LiveMembers == IF MemLive(data, SetKey, now) THEN members ELSE {}

InitSet ==
    /\ InitStore
    /\ backend = "memory"

\* SAdd / SRem by the observed goroutine (recorded) or by another one
SetSAdd ==
    /\ \E args \in SetArgs : \E r \in MemSAdd(data, SetKey, args, now) :
          /\ data' = r.data
          /\ members' = LiveMembers \cup Range(args)
          /\ Issued([IdleOp EXCEPT !.pc = "done", !.name = "SAdd", !.key = SetKey,
                                   !.args = args, !.before = LiveMembers,
                                   !.num = r.ret], {})
    /\ UNCHANGED <<backend, now, rdb, call, limiterVars, lockVars>>

SetSRem ==
    /\ \E args \in SetArgs : \E r \in MemSRem(data, SetKey, args, now) :
          /\ data' = r.data
          /\ members' = LiveMembers \ Range(args)
          /\ Issued([IdleOp EXCEPT !.pc = "done", !.name = "SRem", !.key = SetKey,
                                   !.args = args, !.before = LiveMembers,
                                   !.num = r.ret], {SetKey})
    /\ UNCHANGED <<backend, now, rdb, call, limiterVars, lockVars>>

\* SMembers, SIsMember of every member and SCard, each under m.mu.RLock()
SetSMembers ==
    /\ ops' = [IdleOp EXCEPT !.pc = "done", !.name = "SMembers", !.key = SetKey,
                             !.got = MemSetOf(data, SetKey, now).set,
                             !.before = LiveMembers]
    /\ UNCHANGED <<backend, now, data, rdb, call, limiterVars, lockVars, members>>

SetSIsMember ==
    /\ \E m \in SetMembers :
          ops' = [IdleOp EXCEPT !.pc = "done", !.name = "SIsMember", !.key = SetKey,
                                !.bytes = m, !.before = LiveMembers,
                                !.flag = m \in MemSetOf(data, SetKey, now).set]
    /\ UNCHANGED <<backend, now, data, rdb, call, limiterVars, lockVars, members>>

SetSCard ==
    /\ ops' = [IdleOp EXCEPT !.pc = "done", !.name = "SCard", !.key = SetKey,
                             !.before = LiveMembers,
                             !.num = Cardinality(MemSetOf(data, SetKey, now).set)]
    /\ UNCHANGED <<backend, now, data, rdb, call, limiterVars, lockVars, members>>

NextSet ==
    \/ TickReq
    \/ SetSAdd
    \/ SetSRem
    \/ SetSMembers
    \/ SetSIsMember
    \/ SetSCard

SpecSet == InitSet /\ [][NextSet]_vars

\* C12: SAdd returns the number of given members that were not in the set,
\* SRem the number that were in it (re-adding a member returns 0); SMembers,
\* SCard and SIsMember answer for exactly the members added and not removed,
\* so once all are removed they answer empty, 0 and false.  In the record of
\* an operation, before is the set of members right before it ran.
C12_SetSemantics ==
    ops.pc = "done" =>
        /\ ops.name = "SAdd" => ops.num = Cardinality(Range(ops.args) \ ops.before)
        /\ ops.name = "SRem" => ops.num = Cardinality(Range(ops.args) \cap ops.before)
        /\ ops.name = "SMembers" => ops.got = ops.before
        /\ ops.name = "SCard" => ops.num = Cardinality(ops.before)
        /\ ops.name = "SIsMember" => (ops.flag <=> ops.bytes \in ops.before)

\* a member is re-added to a set of two members: SAdd returns 0
C12_Witness ==
    /\ ops.pc = "done" /\ ops.name = "SAdd" /\ ops.num = 0
    /\ Cardinality(LiveMembers) = 2
    /\ MemSetOf(data, SetKey, now).set = LiveMembers

\* the map after a sweep at clock t
Swept(d, t) == [k \in DOMAIN d \ CleanupExpired(d, t) |-> d[k]]

\* what a Get of key returns on map d at clock t, fetch and return at once
GetOf(d, key, t) ==
    MemGetReturn(IF key \in DOMAIN d THEN d[key] ELSE NoItem, key \in DOMAIN d, t)

\* C24: the sweep deletes exactly the entries whose expiry instant has
\* passed, and whether it has run changes the result of no later read, also
\* with a write to the key between the sweep and the read.
C24_SweepUnobservable ==
    backend = "memory" =>
        /\ DOMAIN Swept(data, now) = {k \in DOMAIN data : ~isExpired(data[k], now)}
        /\ \A key \in StoreKeys :
              /\ GetOf(Swept(data, now), key, now) = GetOf(data, key, now)
              /\ \A ttl \in TTLs :
                    GetOf(MemSetTTL(Swept(data, now), key, ttl, now).data, key, now)
                        = GetOf(MemSetTTL(data, key, ttl, now).data, key, now)

\* C28: SetTTL on a key whose expiry instant has passed reports NotFound and
\* does not make the old payload readable again.
C28_ExpiredStaysGone ==
    /\ (ops.pc = "done" /\ ops.name = "SetTTL" /\ ops.stale)
          => ops.err = ErrKeyNotFound
    /\ backend = "memory" =>
          \A key \in StoreKeys, ttl \in TTLs :
              Stale(data, key, now)
                  => GetOf(MemSetTTL(data, key, ttl, now).data, key, now).err
                         = ErrKeyNotFound

\* C14: no operation reads a field of a stored entry outside the mutex while
\* another operation writes that field.
C14_RaceFree == ~ops.raced

\* C16: the result of GetKeys(pattern) is exactly the live keys that match
\* the pattern; it holds no key whose expiry instant has passed, swept or not.
C16_GetKeysLive ==
    (ops.pc = "done" /\ ops.name = "GetKeys")
        => Range(ops.got) = {k \in ops.before \ ops.dead : Match(ops.args, k)}

\* C17: GetTTL returns NotFound for a key that is absent or whose expiry
\* instant has passed, -1 for a live key without expiry and the remaining
\* duration for a live key with expiry; never a value where Get misses.
C17_GetTTLKinds ==
    (ops.pc = "done" /\ ops.name = "GetTTL" /\ ~ops.raced)
        => IF ~ops.flag THEN ops.err = ErrKeyNotFound
           ELSE /\ ops.err = ""
                /\ IF ops.item.expiresAt = ZeroTime THEN ops.num = -1
                   ELSE ops.num >= 0

\* the same, for the in-process backend alone
C17_MemoryGetTTLKinds == backend = "memory" => C17_GetTTLKinds

\* C18: a Set with ttl < 0 returns the invalid-TTL error and stores nothing.
C18_NegativeTTLRejected ==
    (ops.pc = "done" /\ ops.name = "Set" /\ ops.ttl < 0)
        => ops.err = ErrInvalidTTL

\* a step in which some client's Lock call on the resource returns
LockCallStep ==
    \E c \in Clients :
        MemLockCall(c) \/ RedisLockCall(c) \/ RedisLockFail(c) \/ RedisLockLost(c)

\* C19: a Lock call on a resource whose lock is held returns false and
\* leaves the store as it was: the held entry is neither rewritten nor
\* extended, and the caller holds nothing more than before.
C19_FailedLockNoEffect ==
    [][(~LockFree /\ LockCallStep)
          => (data' = data /\ rdb' = rdb /\ holds' = holds)]_vars

\* a Lock call was made in the instant in which another had just won the
\* lock: it returned false and the lock is still held
C19_Witness ==
    /\ race.open /\ race.t0 = now
    /\ race.n >= 2 /\ race.wins = 1 /\ race.errs = 0
    /\ ~LockFree

\* C20: a SetJSON whose value cannot be marshalled returns an error of the
\* SerializationFailed kind, through the backend method and through the
\* package-level helper alike.
C20_SetJSONErrorKind ==
    (ops.pc = "done" /\ ops.name = "SetJSON" /\ ops.flag)
        => ops.err = ErrSerialization

\* the frame half of C20: such a SetJSON performs no Set
C20_SetJSONStoresNothing ==
    [][(ops'.pc = "done" /\ ops'.name = "SetJSON" /\ ops'.flag /\ ops' # ops)
          => (data' = data /\ rdb' = rdb)]_vars

-----------------------------------------------------------------------------
(* GenerateCacheKey.  Strings are sequences of bytes.  Two calls are made   *)
(* with one query and two filter maps; each call ranges over its map in an *)
(* order of the runtime's choosing.  ops holds the inputs and the results. *)
(* SHA-256 is replaced by a 32-byte checksum that, like it, is a function  *)
(* of the byte sequence written and is sensitive to the order of bytes.    *)

Queries == {<<112>>, <<112, 97>>}
FilterNames == {<<97>>, <<97, 98>>}
FilterValues == {<<99>>, <<98, 99>>}

\* the values of type map[string]string under test
FilterMaps ==
    UNION {[names -> FilterValues] : names \in SUBSET FilterNames}

\* a < b for Go strings
RECURSIVE StringLess(_, _)
StringLess(a, b) ==
    IF b = <<>> THEN FALSE
    ELSE IF a = <<>> THEN TRUE
    ELSE IF Head(a) # Head(b) THEN Head(a) < Head(b)
    ELSE StringLess(Tail(a), Tail(b))

\* x put into the sorted sequence sq
RECURSIVE SortedInsert(_, _)
SortedInsert(x, sq) ==
    IF sq = <<>> THEN <<x>>
    ELSE IF StringLess(x, Head(sq)) THEN <<x>> \o sq
    ELSE <<Head(sq)>> \o SortedInsert(x, Tail(sq))

\* sort.Strings(keys)
RECURSIVE SortStrings(_)
SortStrings(keys) ==
    IF keys = <<>> THEN <<>>
    ELSE SortedInsert(Head(keys), SortStrings(Tail(keys)))

\* the bytes written to the hash after the query: each key, then its value
RECURSIVE WriteFilters(_, _)
WriteFilters(keys, filters) ==
    IF keys = <<>> THEN <<>>
    ELSE Head(keys) \o filters[Head(keys)] \o WriteFilters(Tail(keys), filters)

\* everything GenerateCacheKey writes to the hash; order is the order in
\* which the range over the map yields the keys
HashInputUnsorted(query, filters, order) ==
    query \o WriteFilters(order, filters)

HashInput(query, filters, order) ==
    query \o WriteFilters(SortStrings(order), filters)

DigestSize == 32
KeyHexLen == 16

\* the i-th lane of the checksum after the bytes were written to state h
RECURSIVE Absorb(_, _, _)
Absorb(bytes, i, h) ==
    IF bytes = <<>> THEN h
    ELSE Absorb(Tail(bytes), i, (h * (2 * i + 31) + Head(bytes)) % 65536)

\* h.Sum(nil)
sha256Sum(bytes) ==
    [i \in 1 .. DigestSize |->
        LET h == Absorb(bytes, i, i) IN ((h \div 256) + h) % 256]

HexDigits ==
    <<"0", "1", "2", "3", "4", "5", "6", "7",
      "8", "9", "a", "b", "c", "d", "e", "f">>

\* hex.EncodeToString
hexEncode(bytes) ==
    [k \in 1 .. 2 * Len(bytes) |->
        IF k % 2 = 1 THEN HexDigits[(bytes[(k + 1) \div 2] \div 16) + 1]
        ELSE HexDigits[(bytes[k \div 2] % 16) + 1]]

SearchPrefix == <<"s", "e", "a", "r", "c", "h", ":">>

GenerateCacheKey(query, filters, order) ==
    SearchPrefix
        \o SubSeq(hexEncode(sha256Sum(HashInput(query, filters, order))), 1, KeyHexLen)

InitKey ==
    /\ backend = "memory"
    /\ now = 1
    /\ data = <<>>
    /\ rdb = <<>>
    /\ call = <<>>
    /\ policy = "none"
    /\ req = <<>>
    /\ holds = <<>>
    /\ race = <<>>
    /\ lockOps = 0
    /\ members = {}
    /\ \E query \in Queries, f1 \in FilterMaps, f2 \in FilterMaps :
          ops = [pc |-> "input", query |-> query, f1 |-> f1, f2 |-> f2,
                 order1 |-> <<>>, order2 |-> <<>>, fed1 |-> <<>>, fed2 |-> <<>>,
                 key1 |-> <<>>, key2 |-> <<>>]

\* GenerateCacheKey(query, f1)
KeyFirst ==
    /\ ops.pc = "input"
    /\ \E order \in Orders(DOMAIN ops.f1) :
          ops' = [ops EXCEPT !.pc = "first", !.order1 = order,
                             !.fed1 = HashInput(ops.query, ops.f1, order),
                             !.key1 = GenerateCacheKey(ops.query, ops.f1, order)]
    /\ UNCHANGED <<backend, now, data, rdb, call, limiterVars, lockVars, members>>

\* GenerateCacheKey(query, f2)
KeySecond ==
    /\ ops.pc = "first"
    /\ \E order \in Orders(DOMAIN ops.f2) :
          ops' = [ops EXCEPT !.pc = "both", !.order2 = order,
                             !.fed2 = HashInput(ops.query, ops.f2, order),
                             !.key2 = GenerateCacheKey(ops.query, ops.f2, order)]
    /\ UNCHANGED <<backend, now, data, rdb, call, limiterVars, lockVars, members>>

NextKey == KeyFirst \/ KeySecond

SpecKey == InitKey /\ [][NextKey]_vars

\* C21: for one query, two filter maps that differ in a key or in a value
\* feed different byte sequences to the hash.
C21_FiltersSeparated ==
    (ops.pc = "both" /\ ops.f1 # ops.f2) => ops.fed1 # ops.fed2

\* C22: two calls with the same query and the same filter pairs return the
\* same key whatever the order in which each ranged over its map, and every
\* key is "search:" followed by 16 hex characters.
C22_KeyDeterministic ==
    ops.pc = "both" =>
        /\ ops.f1 = ops.f2 => ops.key1 = ops.key2
        /\ \A key \in {ops.key1, ops.key2} :
              /\ Len(key) = Len(SearchPrefix) + 16
              /\ SubSeq(key, 1, Len(SearchPrefix)) = SearchPrefix
              /\ \A k \in Len(SearchPrefix) + 1 .. Len(key) : key[k] \in Range(HexDigits)

\* the two calls had the same two pairs and ranged over them in opposite
\* orders
C22_Witness ==
    /\ ops.pc = "both" /\ ops.f1 = ops.f2
    /\ Cardinality(DOMAIN ops.f1) = 2
    /\ ops.order1 # ops.order2
    /\ ops.key1 = ops.key2

-----------------------------------------------------------------------------
(* The sweep goroutine and Close.  NewMemoryCache starts cleanupExpired,   *)
(* which creates its ticker and then selects between ticker.C and stopCh.  *)
(* ops holds the goroutine's position (sweeper), whether ticker.C holds a  *)
(* tick, whether stopCh is closed, the Close calls that returned and       *)
(* whether one of them panicked; a panic ends the process.                 *)

IdleSweep ==
    [sweeper |-> "select", tick |-> FALSE, tickerStopped |-> FALSE,
     closed |-> FALSE, closes |-> 0, panicked |-> FALSE]

InitSweep ==
    /\ backend = "memory"
    /\ now = 1
    /\ data = <<>>
    /\ rdb = <<>>
    /\ call = <<>>
    /\ policy = "none"
    /\ req = <<>>
    /\ holds = <<>>
    /\ race = <<>>
    /\ lockOps = 0
    /\ members = {}
    /\ ops = IdleSweep

\* the cases of the select in cleanupExpired that can proceed
SelectReadyNoStop(closed, tick) == IF tick THEN {"tick"} ELSE {}

SelectReady(closed, tick) ==
    (IF tick THEN {"tick"} ELSE {}) \cup (IF closed THEN {"stop"} ELSE {})

\* some caller stores an entry
SweepSet ==
    /\ ~ops.panicked
    /\ \E key \in StoreKeys, value \in Payloads, ttl \in TTLs :
          data' = MemSet(data, key, value, ttl, now)
    /\ UNCHANGED <<backend, now, rdb, call, limiterVars, lockVars, storeVars>>

\* a ticker period elapses: a running ticker puts a tick into ticker.C
SweepTick ==
    /\ ~ops.panicked
    /\ now < MaxTime
    /\ now' = now + 1
    /\ ops' = [ops EXCEPT !.tick = ops.tick \/ ~ops.tickerStopped]
    /\ UNCHANGED <<backend, data, rdb, call, limiterVars, lockVars, members>>

\* case <-ticker.C
SweepSelectTick ==
    /\ ~ops.panicked
    /\ ops.sweeper = "select"
    /\ "tick" \in SelectReady(ops.closed, ops.tick)
    /\ ops' = [ops EXCEPT !.sweeper = "cleanup", !.tick = FALSE]
    /\ UNCHANGED <<backend, now, data, rdb, call, limiterVars, lockVars, members>>

\* m.cleanup() under m.mu.Lock()
SweepCleanup ==
    /\ ~ops.panicked
    /\ ops.sweeper = "cleanup"
    /\ data' = [k \in DOMAIN data \ CleanupExpired(data, now) |-> data[k]]
    /\ ops' = [ops EXCEPT !.sweeper = "select"]
    /\ UNCHANGED <<backend, now, rdb, call, limiterVars, lockVars, members>>

\* case <-m.stopCh: return, and the deferred ticker.Stop() runs
SweepSelectStop ==
    /\ ~ops.panicked
    /\ ops.sweeper = "select"
    /\ "stop" \in SelectReady(ops.closed, ops.tick)
    /\ ops' = [ops EXCEPT !.sweeper = "stopped", !.tickerStopped = TRUE]
    /\ UNCHANGED <<backend, now, data, rdb, call, limiterVars, lockVars, members>>

\* Close: close(m.stopCh) panics on a channel that is already closed
SweepClose ==
    /\ ~ops.panicked
    /\ ops.closes < MaxCloses
    /\ ops' = IF ops.closed THEN [ops EXCEPT !.panicked = TRUE]
              ELSE [ops EXCEPT !.closed = TRUE, !.closes = ops.closes + 1]
    /\ UNCHANGED <<backend, now, data, rdb, call, limiterVars, lockVars, members>>

NextSweep ==
    \/ SweepSet
    \/ SweepTick
    \/ SweepSelectTick
    \/ SweepCleanup
    \/ SweepSelectStop
    \/ SweepClose

SpecSweep == InitSweep /\ [][NextSweep]_vars

\* the goroutine is scheduled; select picks at random among the ready
\* cases, so a case that is ready again and again is taken
SpecSweepLive ==
    SpecSweep /\ WF_vars(SweepCleanup) /\ SF_vars(SweepSelectStop)

\* C23: after Close the sweep goroutine eventually terminates with its
\* ticker stopped, and once terminated it never runs again.
C23_CloseStopsSweep ==
    /\ (ops.closed /\ ~ops.panicked)
          ~> ((ops.sweeper = "stopped" /\ ops.tickerStopped) \/ ops.panicked)
    /\ [][ops.sweeper = "stopped"
             => (ops'.sweeper = "stopped" /\ ops'.tickerStopped)]_vars

\* Close returned, the goroutine has terminated and time went on
C23_Witness ==
    /\ ops.closed /\ ~ops.panicked
    /\ ops.sweeper = "stopped" /\ ops.tickerStopped
    /\ now > 1

\* C30: no call of Close panics, the first or a later one.
C30_CloseRepeatable == ~ops.panicked

-----------------------------------------------------------------------------
(* Hash fields of the in-process backend.  HSet, HGet and HDelete address  *)
(* the entry "<key>::<field>" of the one map; HGetAll lists the map keys   *)
(* matching "<key>::*".  Keys and fields are sequences of characters.  One *)
(* goroutine issues the calls; ops is its last call, members the           *)
(* <<key, field>> pairs written by HSet and not removed by HDelete since.  *)

HashNames == {<<"a">>, <<"a", ":", ":", "b">>}
HashFields == {<<"c">>, <<"b", ":", ":", "c">>}
HashTTLs == {0, 1}

\* fmt.Sprintf("%s::%s", key, field)
HashKeyOf(key, field) == key \o <<":", ":">> \o field

\* strings.HasPrefix
HasPrefix(str, prefix) ==
    Len(str) >= Len(prefix) /\ SubSeq(str, 1, Len(prefix)) = prefix

\* strings.TrimPrefix of a string that has the prefix
TrimPrefix(str, prefix) == SubSeq(str, Len(prefix) + 1, Len(str))

\* MemoryCache.HGetAll: field -> value.  The order of the list GetKeys
\* returns does not show in the map built from it.
MemHGetAll(d, key, t) ==
    LET prefix == key \o <<":", ":">>
        keys == {k \in DOMAIN d : Match(prefix \o <<"*">>, k)}
        kept == {k \in keys : HasPrefix(k, prefix) /\ GetOf(d, k, t).err = ""}
    IN  [field \in {TrimPrefix(k, prefix) : k \in kept} |->
            GetOf(d, prefix \o field, t).bytes]

InitHash ==
    /\ backend = "memory"
    /\ now = 1
    /\ data = <<>>
    /\ rdb = <<>>
    /\ call = <<>>
    /\ policy = "none"
    /\ req = <<>>
    /\ holds = <<>>
    /\ race = <<>>
    /\ lockOps = 0
    /\ members = {}
    /\ ops = IdleOp

HashHSet ==
    /\ \E key \in HashNames, field \in HashFields, value \in Payloads,
          ttl \in HashTTLs :
          /\ data' = MemSet(data, HashKeyOf(key, field), value, ttl, now)
          /\ members' = members \cup {<<key, field>>}
          /\ ops' = [IdleOp EXCEPT !.pc = "done", !.name = "HSet", !.key = key,
                                   !.args = field]
    /\ UNCHANGED <<backend, now, rdb, call, limiterVars, lockVars>>

\* HDelete of one field, through DeleteMultiple
HashHDelete ==
    /\ \E key \in HashNames, field \in HashFields :
          /\ data' = MemDelete(data, HashKeyOf(key, field))
          /\ members' = members \ {<<key, field>>}
          /\ ops' = [IdleOp EXCEPT !.pc = "done", !.name = "HDelete", !.key = key,
                                   !.args = field]
    /\ UNCHANGED <<backend, now, rdb, call, limiterVars, lockVars>>

HashHGet ==
    /\ \E key \in HashNames, field \in HashFields :
          LET r == GetOf(data, HashKeyOf(key, field), now)
          IN  ops' = [IdleOp EXCEPT !.pc = "done", !.name = "HGet", !.key = key,
                                    !.args = field, !.bytes = r.bytes, !.err = r.err]
    /\ UNCHANGED <<backend, now, data, rdb, call, limiterVars, lockVars, members>>

HashHGetAll ==
    /\ \E key \in HashNames :
          ops' = [IdleOp EXCEPT !.pc = "done", !.name = "HGetAll", !.key = key,
                                !.got = MemHGetAll(data, key, now)]
    /\ UNCHANGED <<backend, now, data, rdb, call, limiterVars, lockVars, members>>

NextHash ==
    \/ Tick
    \/ HashHSet
    \/ HashHDelete
    \/ HashHGet
    \/ HashHGetAll

SpecHash == InitHash /\ [][NextHash]_vars

\* C25: HGet(key, field) returns NotFound unless HSet wrote exactly that key
\* and field, and HGetAll(key) returns only fields written under that key.
C25_HashFieldsScoped ==
    /\ (ops.pc = "done" /\ ops.name = "HGet" /\ <<ops.key, ops.args>> \notin members)
          => ops.err = ErrKeyNotFound
    /\ (ops.pc = "done" /\ ops.name = "HGetAll")
          => \A field \in DOMAIN ops.got : <<ops.key, field>> \in members

-----------------------------------------------------------------------------
(* Sets on the networked backend.  RedisCache.SAdd sends SADD, then SCARD, *)
(* then EXPIRE: three commands, between which the server runs the commands *)
(* of other clients.  call[p] is the SAdd call of client p; the value of   *)
(* the set key in rdb is the set of its members, and the server drops a    *)
(* set that becomes empty.  SRem is one command.                           *)

IdleSAdd == [pc |-> "idle", ret |-> 0, size |-> 0]

InitRedisSet ==
    /\ backend = "redis"
    /\ now = 1
    /\ data = <<>>
    /\ rdb = <<>>
    /\ call = [p \in Procs |-> IdleSAdd]
    /\ policy = "none"
    /\ req = <<>>
    /\ holds = <<>>
    /\ race = <<>>
    /\ lockOps = 0
    /\ ops = <<>>
    /\ members = {}

\* the members of the set at key; none if the key is absent or expired
RedisSetOf(rd, key, t) == IF RedisLive(rd, key, t) THEN rd[key].value ELSE {}

\* SADD key args: [ret, db]
RedisSAddCmd(rd, key, args, t) ==
    LET old == RedisSetOf(rd, key, t)
        exp == IF RedisLive(rd, key, t) THEN rd[key].expireAt ELSE ZeroTime
    IN  [ret |-> Cardinality(args \ old),
         db |-> [k \in DOMAIN rd \cup {key} |->
                    IF k = key THEN [value |-> old \cup args, expireAt |-> exp]
                    ELSE rd[k]]]

\* SREM key args: the keyspace afterwards
RedisSRemCmd(rd, key, args, t) ==
    LET left == RedisSetOf(rd, key, t) \ args
    IN  IF left = {} THEN RedisDel(rd, key)
        ELSE [rd EXCEPT ![key].value = left]

\* r.client.SAdd: the server runs SADD; SAdd goes on to the size check only
\* if DefaultTTL > 0 and something was added
RSetSAdd(p) ==
    /\ call[p].pc = "idle"
    /\ \E args \in SUBSET SetMembers \ {{}} :
          LET r == RedisSAddCmd(rdb, SetKey, args, now)
          IN  /\ rdb' = r.db
              /\ call' = [call EXCEPT ![p] =
                     [pc |-> IF DefaultTTL > 0 /\ r.ret > 0 THEN "added" ELSE "done",
                      ret |-> r.ret, size |-> 0]]
    /\ UNCHANGED <<backend, now, data, limiterVars, lockVars, storeVars>>

\* r.client.SCard: the server runs SCARD
RSetSCard(p) ==
    /\ call[p].pc = "added"
    /\ LET size == Cardinality(RedisSetOf(rdb, SetKey, now))
       IN  call' = [call EXCEPT ![p].size = size,
                                ![p].pc = IF size = call[p].ret THEN "expire"
                                          ELSE "done"]
    /\ UNCHANGED <<backend, now, data, rdb, limiterVars, lockVars, storeVars>>

\* r.client.Expire: the server runs EXPIRE and SAdd returns
RSetExpire(p) ==
    /\ call[p].pc = "expire"
    /\ rdb' = RedisExpire(rdb, SetKey, DefaultTTL, now)
    /\ call' = [call EXCEPT ![p].pc = "done"]
    /\ UNCHANGED <<backend, now, data, limiterVars, lockVars, storeVars>>

\* RedisCache.SRem by some client
RSetSRem ==
    /\ \E args \in SUBSET SetMembers \ {{}} :
          /\ RedisSetOf(rdb, SetKey, now) \cap args # {}
          /\ rdb' = RedisSRemCmd(rdb, SetKey, args, now)
    /\ UNCHANGED <<backend, now, data, call, limiterVars, lockVars, storeVars>>

NextRedisSet ==
    \/ Tick
    \/ \E p \in Procs : RSetSAdd(p)
    \/ \E p \in Procs : RSetSCard(p)
    \/ \E p \in Procs : RSetExpire(p)
    \/ RSetSRem

SpecRedisSet == InitRedisSet /\ [][NextRedisSet]_vars

\* C29: with DefaultTTL > 0, once every SAdd call that was started has
\* returned, the set key, if it is there, carries an expiry.
C29_RedisSetExpires ==
    ( /\ DefaultTTL > 0
      /\ \A p \in Procs : call[p].pc \in {"idle", "done"}
      /\ RedisLive(rdb, SetKey, now) )
    => rdb[SetKey].expireAt # ZeroTime

====
